---- MODULE Spec2Model ----
(***************************************************************************)
(* The constant connection pool of src/rotor/src/conn/constant/mod.rs:     *)
(* a Handle that pushes messages to a shared Queue and wakes every         *)
(* registered machine, and one Fsm per connection that pops the Queue      *)
(* when the wire engine calls connection_idle, wakeup or timeout.          *)
(*                                                                         *)
(* A submission is identified by the number of its push (1, 2, ...): the   *)
(* message of submission o is o, and its promise/complete pair (if any)    *)
(* is pair o.  An Option is a sequence of length at most one.              *)
(***************************************************************************)
EXTENDS Naturals, Sequences, FiniteSets

\* ------------------------------------------------------ processes, bounds
Conns == {1, 2}      \* the machines of the pool, one per connection
Producers == {1}     \* the thread that owns the Handle and calls req and send

MaxOps == 2          \* submissions (req or send) in one run
MaxWakeups == 2      \* capacity of a machine's pending-wakeup channel

\* length of Handle.notifiers: as many registrations as there are machines,
\* so that one machine may be registered twice while another is not yet
MaxListeners == Cardinality(Conns)

\* Duration::from_millis(2000) of connection_idle, wakeup and timeout
SleepMillis == 2000

Ops == 1..MaxOps

VARIABLES
    queue,      \* Queue: sequence of (msg, returns)
    notifiers,  \* Handle.notifiers: sequence of machines
    pushed,     \* the number of pushes so far: submission o is the o-th push
    pc,         \* per producer: idle, notifying (inside post's loop), panicked
    posting,    \* per producer: <<>> or <<o>>, the submission of its running
                \* (or panicked) call
    signalled,  \* per producer: the notifiers its call has signalled, in order
    kind,       \* per submission: none (not yet made), req or send
    audience,   \* per submission: the machines registered when it was pushed
    future,     \* per submission: the Promise side, as the caller sees it
    resolved,   \* per promise pair: the values its Complete was fulfilled with
    wakeups,    \* per machine: pending wakeups, each tagged with its submission
                \* and with whether the machine was idle when it was signalled
    state,      \* per machine: Unconnected, Connecting, Requesting, Sleeping, Closed
    timer,      \* per machine: {} or {d}, a deadline set d ms after its setting
    inflight,   \* per machine: <<>> or <<(msg, returns)>> handed to the engine
    how,        \* per machine: the call that claimed the request in flight
    claims,     \* history: the message of every successful try_pop, in order
    finished,   \* history: messages whose request the engine finished
    lost,       \* history: messages in flight on a machine that closed
    failed      \* history: submissions one of whose wakeup() calls returned Err

vars == <<queue, notifiers, pushed, pc, posting, signalled, kind, audience,
          future, resolved,
          wakeups, state, timer, inflight, how, claims, finished, lost, failed>>

\* ------------------------------------------------------------- helpers
Range(s) == {s[i] : i \in 1..Len(s)}

IsPrefix(s, t) == Len(s) <= Len(t) /\ \A i \in 1..Len(s) : s[i] = t[i]

Msgs(q) == {q[i].msg : i \in 1..Len(q)}

\* a post is between its push and its return
Posting == \E p \in Producers : pc[p] = "notifying"

\* the response data of message m
Data(m) == m

\* Queue::push: append to the tail
QueuePush(q, e) == Append(q, e)

\* Queue::try_pop: the head (as an Option) and the queue it leaves
QueueTryPop(q) ==
    IF q = <<>> THEN [value |-> <<>>, rest |-> q]
    ELSE [value |-> <<Head(q)>>, rest |-> Tail(q)]

\* Connection::is_idle: no request in flight on the connection
IsIdle(c) == inflight[c] = <<>>

\* ---------------------------------------------------------------- Init
Init ==
    /\ queue = <<>>
    /\ notifiers = <<>>
    /\ pushed = 0
    /\ pc = [p \in Producers |-> "idle"]
    /\ posting = [p \in Producers |-> <<>>]
    /\ signalled = [p \in Producers |-> <<>>]
    /\ kind = [o \in Ops |-> "none"]
    /\ audience = [o \in Ops |-> {}]
    /\ future = [o \in Ops |-> "none"]
    /\ resolved = [o \in Ops |-> <<>>]
    /\ wakeups = [c \in Conns |-> <<>>]
    /\ state = [c \in Conns |-> "Unconnected"]
    /\ timer = [c \in Conns |-> {}]
    /\ inflight = [c \in Conns |-> <<>>]
    /\ how = [c \in Conns |-> "none"]
    /\ claims = <<>>
    /\ finished = {}
    /\ lost = {}
    /\ failed = {}

\* -------------------------------------------------------------- Handle
\* Handle::add_listener (self.notifiers.push(notifier)).  It takes &mut self,
\* so no req or send of the same Handle is running.
AddListener(n) ==
    /\ ~Posting
    /\ Len(notifiers) < MaxListeners
    /\ notifiers' = Append(notifiers, n)

\* connect_addr: register the machine's notifier, then Persistent::connect.
\* The machines are numbered in the order in which they are connected.
ConnectAddr(c) ==
    /\ state[c] = "Unconnected"
    /\ \A d \in Conns : d < c => state[d] # "Unconnected"
    /\ AddListener(c)
    /\ state' = [state EXCEPT ![c] = "Connecting"]
    /\ UNCHANGED <<queue, pushed, pc, posting, signalled, kind, audience,
                   future, resolved, wakeups, timer, inflight, how, claims,
                   finished, lost, failed>>

\* add_listener called again with the notifier of a machine already connected
AddListenerAgain(c) ==
    /\ state[c] # "Unconnected"
    /\ AddListener(c)
    /\ UNCHANGED <<queue, pushed, pc, posting, signalled, kind, audience,
                   future, resolved, wakeups, state, timer, inflight, how,
                   claims, finished, lost, failed>>

\* Post with the push at the head of the queue
PostFront(p, o, returns) ==
    /\ queue' = <<[msg |-> o, returns |-> returns]>> \o queue
    /\ pushed' = o
    /\ IF notifiers = <<>>
       THEN UNCHANGED <<pc, posting>>
       ELSE /\ pc' = [pc EXCEPT ![p] = "notifying"]
            /\ posting' = [posting EXCEPT ![p] = <<o>>]

\* Post that pushes the message twice
PostTwice(p, o, returns) ==
    /\ queue' = QueuePush(QueuePush(queue, [msg |-> o, returns |-> returns]),
                          [msg |-> o, returns |-> returns])
    /\ pushed' = o
    /\ IF notifiers = <<>>
       THEN UNCHANGED <<pc, posting>>
       ELSE /\ pc' = [pc EXCEPT ![p] = "notifying"]
            /\ posting' = [posting EXCEPT ![p] = <<o>>]

\* Handle::post, up to its loop: self.queue.push((msg, returns)).  With no
\* notifier registered the loop is empty and post returns.
Post(p, o, returns) ==
    /\ queue' = QueuePush(queue, [msg |-> o, returns |-> returns])
    /\ pushed' = o
    /\ IF notifiers = <<>>
       THEN UNCHANGED <<pc, posting>>
       ELSE /\ pc' = [pc EXCEPT ![p] = "notifying"]
            /\ posting' = [posting EXCEPT ![p] = <<o>>]

\* Handle::req: let (c, p) = promise(); self.post(msg, Some(c)); p
Req(p) ==
    /\ pc[p] = "idle"
    /\ pushed < MaxOps
    /\ Post(p, pushed + 1, <<pushed + 1>>)
    /\ kind' = [kind EXCEPT ![pushed + 1] = "req"]
    /\ audience' = [audience EXCEPT ![pushed + 1] = Range(notifiers)]
    /\ future' = [future EXCEPT ![pushed + 1] =
                      IF notifiers = <<>> THEN "held" ELSE "unreturned"]
    /\ UNCHANGED <<notifiers, signalled, resolved, wakeups, state, timer,
                   inflight, how, claims, finished, lost, failed>>

\* Send that makes a promise pair like req and posts its Complete
SendSome(p) ==
    /\ pc[p] = "idle"
    /\ pushed < MaxOps
    /\ Post(p, pushed + 1, <<pushed + 1>>)
    /\ kind' = [kind EXCEPT ![pushed + 1] = "send"]
    /\ audience' = [audience EXCEPT ![pushed + 1] = Range(notifiers)]
    /\ UNCHANGED <<notifiers, signalled, future, resolved, wakeups, state,
                   timer, inflight, how, claims, finished, lost, failed>>

\* Handle::send: self.post(msg, None)
Send(p) ==
    /\ pc[p] = "idle"
    /\ pushed < MaxOps
    /\ Post(p, pushed + 1, <<>>)
    /\ kind' = [kind EXCEPT ![pushed + 1] = "send"]
    /\ audience' = [audience EXCEPT ![pushed + 1] = Range(notifiers)]
    /\ UNCHANGED <<notifiers, signalled, future, resolved, wakeups, state,
                   timer, inflight, how, claims, finished, lost, failed>>

\* PostNotify that leaves the loop after its first turn
PostNotifyOne(p) ==
    /\ pc[p] = "notifying"
    /\ LET o == posting[p][1]
           c == notifiers[Len(signalled[p]) + 1]
       IN
        \/ /\ Len(wakeups[c]) < MaxWakeups
           /\ wakeups' = [wakeups EXCEPT ![c] =
                              IF state[c] = "Closed" THEN @
                              ELSE Append(@, [op |-> o,
                                              idle |-> state[c] = "Sleeping"])]
           /\ signalled' = [signalled EXCEPT ![p] = <<>>]
           /\ pc' = [pc EXCEPT ![p] = "idle"]
           /\ posting' = [posting EXCEPT ![p] = <<>>]
           /\ future' = [future EXCEPT ![o] =
                             IF @ = "unreturned" THEN "held" ELSE @]
           /\ UNCHANGED failed
        \/ /\ failed' = failed \cup {o}
           /\ pc' = [pc EXCEPT ![p] = "panicked"]
           /\ future' = [future EXCEPT ![o] =
                             IF @ = "unreturned" THEN "dropped" ELSE @]
           /\ UNCHANGED <<wakeups, signalled, posting>>
    /\ UNCHANGED <<queue, notifiers, pushed, kind, audience, resolved, state,
                   timer, inflight, how, claims, finished, lost>>

\* PostNotify that ignores the Err of wakeup() and goes on with the loop
PostNotifyBestEffort(p) ==
    /\ pc[p] = "notifying"
    /\ LET o == posting[p][1]
           c == notifiers[Len(signalled[p]) + 1]
           last == Len(signalled[p]) + 1 = Len(notifiers)
       IN
        /\ \/ /\ Len(wakeups[c]) < MaxWakeups
              /\ wakeups' = [wakeups EXCEPT ![c] =
                                 IF state[c] = "Closed" THEN @
                                 ELSE Append(@, [op |-> o,
                                                 idle |-> state[c] = "Sleeping"])]
              /\ UNCHANGED failed
           \/ /\ failed' = failed \cup {o}
              /\ UNCHANGED wakeups
        /\ signalled' = [signalled EXCEPT ![p] =
                             IF last THEN <<>> ELSE Append(@, c)]
        /\ pc' = [pc EXCEPT ![p] = IF last THEN "idle" ELSE @]
        /\ posting' = [posting EXCEPT ![p] = IF last THEN <<>> ELSE @]
        /\ future' = [future EXCEPT ![o] =
                          IF last /\ @ = "unreturned" THEN "held" ELSE @]
    /\ UNCHANGED <<queue, notifiers, pushed, kind, audience, resolved, state,
                   timer, inflight, how, claims, finished, lost>>

\* PostNotify that takes the message back out of the queue when wakeup()
\* returns Err
PostNotifyRollback(p) ==
    /\ pc[p] = "notifying"
    /\ LET o == posting[p][1]
           c == notifiers[Len(signalled[p]) + 1]
           last == Len(signalled[p]) + 1 = Len(notifiers)
       IN
        \/ /\ Len(wakeups[c]) < MaxWakeups
           /\ wakeups' = [wakeups EXCEPT ![c] =
                              IF state[c] = "Closed" THEN @
                              ELSE Append(@, [op |-> o,
                                              idle |-> state[c] = "Sleeping"])]
           /\ signalled' = [signalled EXCEPT ![p] =
                                IF last THEN <<>> ELSE Append(@, c)]
           /\ pc' = [pc EXCEPT ![p] = IF last THEN "idle" ELSE @]
           /\ posting' = [posting EXCEPT ![p] = IF last THEN <<>> ELSE @]
           /\ future' = [future EXCEPT ![o] =
                             IF last /\ @ = "unreturned" THEN "held" ELSE @]
           /\ UNCHANGED <<failed, queue>>
        \/ /\ failed' = failed \cup {o}
           /\ pc' = [pc EXCEPT ![p] = "panicked"]
           /\ future' = [future EXCEPT ![o] =
                             IF @ = "unreturned" THEN "dropped" ELSE @]
           /\ queue' = SelectSeq(queue, LAMBDA e : e.msg # o)
           /\ UNCHANGED <<wakeups, signalled, posting>>
    /\ UNCHANGED <<notifiers, pushed, kind, audience, resolved, state, timer,
                   inflight, how, claims, finished, lost>>

\* Handle::post, one turn of the loop: notifier.wakeup().unwrap().
\* wakeup() returns Ok (the wakeup is queued for the machine) or Err (the
\* machine's loop is gone or its channel is full); unwrap panics on Err: the
\* thread is dead, and the unwinding drops the promise req has not returned.
\* After the last turn post returns, and req returns the promise.  The loop
\* drops a wakeup for a machine it has removed (a closed connection).
PostNotify(p) ==
    /\ pc[p] = "notifying"
    /\ LET o == posting[p][1]
           c == notifiers[Len(signalled[p]) + 1]
           last == Len(signalled[p]) + 1 = Len(notifiers)
       IN
        \/ /\ Len(wakeups[c]) < MaxWakeups
           /\ wakeups' = [wakeups EXCEPT ![c] =
                              IF state[c] = "Closed" THEN @
                              ELSE Append(@, [op |-> o,
                                              idle |-> state[c] = "Sleeping"])]
           /\ signalled' = [signalled EXCEPT ![p] =
                                IF last THEN <<>> ELSE Append(@, c)]
           /\ pc' = [pc EXCEPT ![p] = IF last THEN "idle" ELSE @]
           /\ posting' = [posting EXCEPT ![p] = IF last THEN <<>> ELSE @]
           /\ future' = [future EXCEPT ![o] =
                             IF last /\ @ = "unreturned" THEN "held" ELSE @]
           /\ UNCHANGED failed
        \/ /\ failed' = failed \cup {o}
           /\ pc' = [pc EXCEPT ![p] = "panicked"]
           /\ future' = [future EXCEPT ![o] =
                             IF @ = "unreturned" THEN "dropped" ELSE @]
           /\ UNCHANGED <<wakeups, signalled, posting>>
    /\ UNCHANGED <<queue, notifiers, pushed, kind, audience, resolved, state,
                   timer, inflight, how, claims, finished, lost>>

\* the caller drops the Promise that req returned, while its request is
\* still queued or in flight
DropFuture(o) ==
    /\ future[o] = "held"
    /\ o \notin finished \cup lost
    /\ future' = [future EXCEPT ![o] = "dropped"]
    /\ UNCHANGED <<queue, notifiers, pushed, pc, posting, signalled, kind,
                   audience, resolved, wakeups, state, timer, inflight, how,
                   claims, finished, lost, failed>>

\* ----------------------------------------------------------------- Fsm
\* Task::Sleep(self, scope.now() + Duration::from_millis(2000))
SleepDeadline == {SleepMillis}

\* ConnectionIdle that reads the head of the queue without removing it
ConnectionIdlePeek(c, via) ==
    LET popped == QueueTryPop(queue) IN
    IF popped.value # <<>>
    THEN /\ queue' = queue
         /\ inflight' = [inflight EXCEPT ![c] = popped.value]
         /\ state' = [state EXCEPT ![c] = "Requesting"]
         /\ timer' = [timer EXCEPT ![c] = {}]
         /\ how' = [how EXCEPT ![c] = via]
         /\ claims' = Append(claims, popped.value[1].msg)
    ELSE /\ queue' = popped.rest
         /\ inflight' = [inflight EXCEPT ![c] = <<>>]
         /\ state' = [state EXCEPT ![c] = "Sleeping"]
         /\ timer' = [timer EXCEPT ![c] = SleepDeadline]
         /\ how' = [how EXCEPT ![c] = "none"]
         /\ UNCHANGED claims

\* ConnectionIdle that builds the request without the Complete it popped
ConnectionIdleNoSink(c, via) ==
    LET popped == QueueTryPop(queue) IN
    IF popped.value # <<>>
    THEN /\ queue' = popped.rest
         /\ inflight' = [inflight EXCEPT ![c] =
                             <<[msg |-> popped.value[1].msg, returns |-> <<>>]>>]
         /\ state' = [state EXCEPT ![c] = "Requesting"]
         /\ timer' = [timer EXCEPT ![c] = {}]
         /\ how' = [how EXCEPT ![c] = via]
         /\ claims' = Append(claims, popped.value[1].msg)
    ELSE /\ queue' = popped.rest
         /\ inflight' = [inflight EXCEPT ![c] = <<>>]
         /\ state' = [state EXCEPT ![c] = "Sleeping"]
         /\ timer' = [timer EXCEPT ![c] = SleepDeadline]
         /\ how' = [how EXCEPT ![c] = "none"]
         /\ UNCHANGED claims

\* ConnectionIdle that sleeps on an empty queue without setting a deadline
ConnectionIdleNoDeadline(c, via) ==
    LET popped == QueueTryPop(queue) IN
    IF popped.value # <<>>
    THEN /\ queue' = popped.rest
         /\ inflight' = [inflight EXCEPT ![c] = popped.value]
         /\ state' = [state EXCEPT ![c] = "Requesting"]
         /\ timer' = [timer EXCEPT ![c] = {}]
         /\ how' = [how EXCEPT ![c] = via]
         /\ claims' = Append(claims, popped.value[1].msg)
    ELSE /\ queue' = popped.rest
         /\ inflight' = [inflight EXCEPT ![c] = <<>>]
         /\ state' = [state EXCEPT ![c] = "Sleeping"]
         /\ timer' = [timer EXCEPT ![c] = {}]
         /\ how' = [how EXCEPT ![c] = "none"]
         /\ UNCHANGED claims

\* Fsm::connection_idle: try_pop; Some((msg, returns)) gives
\* Task::Request(self, ApiRequest::for_msg(msg, returns)), None gives Task::Sleep
ConnectionIdle(c, via) ==
    LET popped == QueueTryPop(queue) IN
    IF popped.value # <<>>
    THEN /\ queue' = popped.rest
         /\ inflight' = [inflight EXCEPT ![c] = popped.value]
         /\ state' = [state EXCEPT ![c] = "Requesting"]
         /\ timer' = [timer EXCEPT ![c] = {}]
         /\ how' = [how EXCEPT ![c] = via]
         /\ claims' = Append(claims, popped.value[1].msg)
    ELSE /\ queue' = popped.rest
         /\ inflight' = [inflight EXCEPT ![c] = <<>>]
         /\ state' = [state EXCEPT ![c] = "Sleeping"]
         /\ timer' = [timer EXCEPT ![c] = SleepDeadline]
         /\ how' = [how EXCEPT ![c] = "none"]
         /\ UNCHANGED claims

\* SleepBusy that gives up the request in flight and sleeps
SleepBusyCancel(c) ==
    /\ timer' = [timer EXCEPT ![c] = SleepDeadline]
    /\ inflight' = [inflight EXCEPT ![c] = <<>>]
    /\ state' = [state EXCEPT ![c] = "Sleeping"]
    /\ how' = [how EXCEPT ![c] = "none"]
    /\ UNCHANGED <<queue, claims>>

\* the else branch of Fsm::wakeup and Fsm::timeout: the request in flight
\* goes on, and only the deadline is set again
SleepBusy(c) ==
    /\ timer' = [timer EXCEPT ![c] = SleepDeadline]
    /\ UNCHANGED <<queue, inflight, state, how, claims>>

\* Wakeup that re-checks the queue only when the deadline has been cleared
WakeupNeedsTimer(c) ==
    /\ state[c] \in {"Requesting", "Sleeping"}
    /\ wakeups[c] # <<>>
    /\ wakeups' = [wakeups EXCEPT ![c] = Tail(@)]
    /\ IF IsIdle(c) /\ timer[c] = {}
       THEN ConnectionIdle(c, "wakeup") ELSE SleepBusy(c)
    /\ UNCHANGED <<notifiers, pushed, pc, posting, signalled, kind, audience,
                   future, resolved, finished, lost, failed>>

\* Wakeup that runs connection_idle whether or not a request is in flight
WakeupRepeat(c) ==
    /\ state[c] \in {"Requesting", "Sleeping"}
    /\ wakeups[c] # <<>>
    /\ wakeups' = [wakeups EXCEPT ![c] = Tail(@)]
    /\ ConnectionIdle(c, "wakeup")
    /\ UNCHANGED <<notifiers, pushed, pc, posting, signalled, kind, audience,
                   future, resolved, finished, lost, failed>>

\* Fsm::wakeup, called by the engine for one pending wakeup of the machine
Wakeup(c) ==
    /\ state[c] \in {"Requesting", "Sleeping"}
    /\ wakeups[c] # <<>>
    /\ wakeups' = [wakeups EXCEPT ![c] = Tail(@)]
    /\ IF IsIdle(c) THEN ConnectionIdle(c, "wakeup") ELSE SleepBusy(c)
    /\ UNCHANGED <<notifiers, pushed, pc, posting, signalled, kind, audience,
                   future, resolved, finished, lost, failed>>

\* Timeout that sets the deadline again without looking at the queue
TimeoutNoCheck(c) ==
    /\ state[c] \in {"Requesting", "Sleeping"}
    /\ timer[c] # {}
    /\ SleepBusy(c)
    /\ UNCHANGED <<notifiers, pushed, pc, posting, signalled, kind, audience,
                   future, resolved, wakeups, finished, lost, failed>>

\* Timeout that fires only for a machine that has a wakeup pending
TimeoutNeedsWakeup(c) ==
    /\ state[c] \in {"Requesting", "Sleeping"}
    /\ timer[c] # {}
    /\ wakeups[c] # <<>>
    /\ IF IsIdle(c) THEN ConnectionIdle(c, "timeout") ELSE SleepBusy(c)
    /\ UNCHANGED <<notifiers, pushed, pc, posting, signalled, kind, audience,
                   future, resolved, wakeups, finished, lost, failed>>

\* Timeout that runs connection_idle whether or not a request is in flight
TimeoutRepeat(c) ==
    /\ state[c] \in {"Requesting", "Sleeping"}
    /\ timer[c] # {}
    /\ ConnectionIdle(c, "timeout")
    /\ UNCHANGED <<notifiers, pushed, pc, posting, signalled, kind, audience,
                   future, resolved, wakeups, finished, lost, failed>>

\* Fsm::timeout, called by the engine when the machine's deadline is reached
Timeout(c) ==
    /\ state[c] \in {"Requesting", "Sleeping"}
    /\ timer[c] # {}
    /\ IF IsIdle(c) THEN ConnectionIdle(c, "timeout") ELSE SleepBusy(c)
    /\ UNCHANGED <<notifiers, pushed, pc, posting, signalled, kind, audience,
                   future, resolved, wakeups, finished, lost, failed>>

\* ConnectionError that puts the request in flight back on the queue
ConnectionErrorRequeue(c) ==
    /\ state[c] \in {"Connecting", "Requesting", "Sleeping"}
    /\ state' = [state EXCEPT ![c] = "Closed"]
    /\ timer' = [timer EXCEPT ![c] = {}]
    /\ inflight' = [inflight EXCEPT ![c] = <<>>]
    /\ how' = [how EXCEPT ![c] = "none"]
    /\ wakeups' = [wakeups EXCEPT ![c] = <<>>]
    /\ lost' = lost \cup Msgs(inflight[c])
    /\ queue' = queue \o inflight[c]
    /\ UNCHANGED <<notifiers, pushed, pc, posting, signalled, kind, audience,
                   future, resolved, claims, finished, failed>>

\* ConnectionError after which the engine connects the machine again
ConnectionErrorReconnect(c) ==
    /\ state[c] \in {"Connecting", "Requesting", "Sleeping"}
    /\ state' = [state EXCEPT ![c] = "Connecting"]
    /\ timer' = [timer EXCEPT ![c] = {}]
    /\ inflight' = [inflight EXCEPT ![c] = <<>>]
    /\ how' = [how EXCEPT ![c] = "none"]
    /\ wakeups' = [wakeups EXCEPT ![c] = <<>>]
    /\ lost' = lost \cup Msgs(inflight[c])
    /\ UNCHANGED <<queue, notifiers, pushed, pc, posting, signalled, kind,
                   audience, future, resolved, claims, finished, failed>>

\* ConnectionError that takes the machine's notifier off the Handle's list
ConnectionErrorUnregister(c) ==
    /\ state[c] \in {"Connecting", "Requesting", "Sleeping"}
    /\ state' = [state EXCEPT ![c] = "Closed"]
    /\ timer' = [timer EXCEPT ![c] = {}]
    /\ inflight' = [inflight EXCEPT ![c] = <<>>]
    /\ how' = [how EXCEPT ![c] = "none"]
    /\ wakeups' = [wakeups EXCEPT ![c] = <<>>]
    /\ lost' = lost \cup Msgs(inflight[c])
    /\ notifiers' = SelectSeq(notifiers, LAMBDA n : n # c)
    /\ UNCHANGED <<queue, pushed, pc, posting, signalled, kind, audience,
                   future, resolved, claims, finished, failed>>

\* Fsm::connection_error: the body is empty; the engine closes the connection,
\* drops the request in flight with its Complete, and removes the machine
\* from the loop, which drops the wakeups pending for it
ConnectionError(c) ==
    /\ state[c] \in {"Connecting", "Requesting", "Sleeping"}
    /\ state' = [state EXCEPT ![c] = "Closed"]
    /\ timer' = [timer EXCEPT ![c] = {}]
    /\ inflight' = [inflight EXCEPT ![c] = <<>>]
    /\ how' = [how EXCEPT ![c] = "none"]
    /\ wakeups' = [wakeups EXCEPT ![c] = <<>>]
    /\ lost' = lost \cup Msgs(inflight[c])
    /\ UNCHANGED <<queue, notifiers, pushed, pc, posting, signalled, kind,
                   audience, future, resolved, claims, finished, failed>>

\* ---------------------------------------------------- engine and reactor
\* ApiRequest: the engine fulfils the Complete carried by the request, if any
Fulfil(returns, data) ==
    IF returns = <<>> THEN resolved
    ELSE [resolved EXCEPT ![returns[1]] = Append(@, data)]

\* ConnectionEstablished that starts the machine asleep, without try_pop
ConnectionEstablishedSleep(c) ==
    /\ state[c] = "Connecting"
    /\ state' = [state EXCEPT ![c] = "Sleeping"]
    /\ timer' = [timer EXCEPT ![c] = SleepDeadline]
    /\ UNCHANGED <<queue, inflight, how, claims, notifiers, pushed, pc,
                   posting, signalled, kind, audience, future, resolved,
                   wakeups, finished, lost, failed>>

\* the connection is established: the engine calls connection_idle
ConnectionEstablished(c) ==
    /\ state[c] = "Connecting"
    /\ ConnectionIdle(c, "idle")
    /\ UNCHANGED <<notifiers, pushed, pc, posting, signalled, kind, audience,
                   future, resolved, wakeups, finished, lost, failed>>

\* RequestDone that sleeps until the next wakeup or deadline instead of
\* calling connection_idle
RequestDoneSleep(c) ==
    /\ state[c] = "Requesting"
    /\ resolved' = Fulfil(inflight[c][1].returns, Data(inflight[c][1].msg))
    /\ finished' = finished \cup {inflight[c][1].msg}
    /\ inflight' = [inflight EXCEPT ![c] = <<>>]
    /\ state' = [state EXCEPT ![c] = "Sleeping"]
    /\ timer' = [timer EXCEPT ![c] = SleepDeadline]
    /\ how' = [how EXCEPT ![c] = "none"]
    /\ UNCHANGED <<queue, claims, notifiers, pushed, pc, posting, signalled,
                   kind, audience, future, wakeups, lost, failed>>

\* RequestDone that finishes a request only when no earlier push is in flight
RequestDoneInOrder(c) ==
    /\ state[c] = "Requesting"
    /\ \A d \in Conns : \A i \in 1..Len(inflight[d]) :
          inflight[c][1].msg <= inflight[d][i].msg
    /\ resolved' = Fulfil(inflight[c][1].returns, Data(inflight[c][1].msg))
    /\ finished' = finished \cup {inflight[c][1].msg}
    /\ ConnectionIdle(c, "done")
    /\ UNCHANGED <<notifiers, pushed, pc, posting, signalled, kind, audience,
                   future, wakeups, lost, failed>>

\* the request in flight finished: the engine fulfils its Complete and,
\* the connection being idle again, calls connection_idle
RequestDone(c) ==
    /\ state[c] = "Requesting"
    /\ resolved' = Fulfil(inflight[c][1].returns, Data(inflight[c][1].msg))
    /\ finished' = finished \cup {inflight[c][1].msg}
    /\ ConnectionIdle(c, "done")
    /\ UNCHANGED <<notifiers, pushed, pc, posting, signalled, kind, audience,
                   future, wakeups, lost, failed>>

\* a wakeup for a machine whose connection is not yet established has no Fsm
\* to call and is consumed by the loop
DiscardWakeup(c) ==
    /\ state[c] = "Connecting"
    /\ wakeups[c] # <<>>
    /\ wakeups' = [wakeups EXCEPT ![c] = Tail(@)]
    /\ UNCHANGED <<queue, notifiers, pushed, pc, posting, signalled, kind,
                   audience, future, resolved, state, timer, inflight, how,
                   claims, finished, lost, failed>>

\* ---------------------------------------------------------------- Next
Next ==
    \/ \E c \in Conns : ConnectAddr(c)
    \/ \E c \in Conns : AddListenerAgain(c)
    \/ \E p \in Producers : Req(p)
    \/ \E p \in Producers : Send(p)
    \/ \E p \in Producers : PostNotify(p)
    \/ \E o \in Ops : DropFuture(o)
    \/ \E c \in Conns : ConnectionEstablished(c)
    \/ \E c \in Conns : Wakeup(c)
    \/ \E c \in Conns : Timeout(c)
    \/ \E c \in Conns : RequestDone(c)
    \/ \E c \in Conns : ConnectionError(c)
    \/ \E c \in Conns : DiscardWakeup(c)

Spec == Init /\ [][Next]_vars

\* The engine finishes every request it was handed, unless the connection
\* fails first.
FairSpec == Spec /\ \A c \in Conns : WF_vars(RequestDone(c))

\* The engine establishes a connection it was asked to make, finishes every
\* request it was handed and calls timeout when a deadline is reached, unless
\* the connection fails first.  Nothing is assumed of the wakeups: a wakeup
\* may stay pending for ever.
LiveSpec ==
    /\ Spec
    /\ \A c \in Conns : WF_vars(ConnectionEstablished(c))
    /\ \A c \in Conns : WF_vars(RequestDone(c))
    /\ \A c \in Conns : WF_vars(Timeout(c))

\* ------------------------------------------------------------ properties
\* the messages in flight on some machine
InFlightMsgs == UNION {Msgs(inflight[c]) : c \in Conns}

\* the messages pushed so far: each is still queued or was claimed
PushedMsgs == Msgs(queue) \cup Range(claims)

\* C1: every message pushed is claimed at most once: no message appears
\* twice in the history of claims, no two machines hold the same message,
\* the queue holds no message twice, and a claimed message is never in the
\* queue again.
AtMostOneClaim ==
    /\ \A i, j \in 1..Len(claims) : i # j => claims[i] # claims[j]
    /\ \A c, d \in Conns :
          c # d => Msgs(inflight[c]) \cap Msgs(inflight[d]) = {}
    /\ \A i, j \in 1..Len(queue) : i # j => queue[i].msg # queue[j].msg
    /\ Range(claims) \cap Msgs(queue) = {}
    /\ InFlightMsgs \subseteq Range(claims)

\* two machines woken for the same submissions each hold a claim of their own
ClaimRace ==
    \E c, d \in Conns :
        /\ c # d
        /\ how[c] = "wakeup" /\ how[d] = "wakeup"
        /\ inflight[c] # <<>> /\ inflight[d] # <<>>

\* C2: claims are made in the order of the pushes, whichever machine makes
\* them: the i-th claim returns the i-th push, the queue is in push order,
\* and no message is claimed while an earlier push is still queued.
FifoClaimOrder ==
    /\ \A i \in 1..Len(claims) : claims[i] = i
    /\ \A i, j \in 1..Len(queue) : i < j => queue[i].msg < queue[j].msg
    /\ \A i \in 1..Len(queue) : \A m \in Range(claims) : m < queue[i].msg

\* two pushes were claimed, the first by one machine, the second by another
FifoAcrossMachines ==
    /\ Len(claims) = 2
    /\ \E c, d \in Conns :
          /\ c # d
          /\ Msgs(inflight[c]) = {claims[1]}
          /\ Msgs(inflight[d]) = {claims[2]}

\* C3: the Complete of a req is fulfilled at most once and only with the
\* result of its own message, and once the request of a req has finished
\* its promise is resolved with that result.
CompletionDelivery ==
    \A o \in Ops :
        /\ Len(resolved[o]) <= 1
        /\ \A i \in 1..Len(resolved[o]) : resolved[o][i] = Data(o)
        /\ (kind[o] = "req" /\ o \in finished) => resolved[o] = <<Data(o)>>
        /\ resolved[o] # <<>> => (kind[o] = "req" /\ o \in finished)

\* two reqs finished, and the promise the caller holds of each is resolved
BothResolved ==
    /\ finished = {1, 2}
    /\ \A o \in {1, 2} :
          kind[o] = "req" /\ future[o] = "held" /\ resolved[o] = <<Data(o)>>

\* C4: a send is pushed with no Complete, through the same post as a req; the
\* caller gets no promise, and queueing, claiming and finishing it fulfils
\* no Complete.
FireAndForget ==
    /\ [](\A o \in Ops : kind[o] = "send" =>
              /\ future[o] = "none"
              /\ resolved[o] = <<>>
              /\ o \in PushedMsgs
              /\ \A c \in Conns : \A i \in 1..Len(inflight[c]) :
                    inflight[c][i].msg = o => inflight[c][i].returns = <<>>
              /\ \A i \in 1..Len(queue) :
                    queue[i].msg = o => queue[i].returns = <<>>)
    /\ [][\A p \in Producers : Send(p) =>
              /\ queue' = Append(queue, [msg |-> pushed + 1, returns |-> <<>>])
              /\ (pc'[p] = "notifying") = (notifiers # <<>>)
              /\ UNCHANGED <<wakeups, future, resolved>>]_vars

\* a send was signalled to a machine, claimed and finished, and nothing
\* was resolved
SendFinished ==
    \E o \in Ops :
        /\ kind[o] = "send"
        /\ o \in finished
        /\ o \notin failed
        /\ notifiers # <<>>
        /\ \A r \in Ops : resolved[r] = <<>>

\* C5: a sleeping machine always has its deadline set 2000 ms ahead, the
\* timeout call is enabled for it whether or not a wakeup is pending, a
\* non-empty queue lets that call claim the head, and when the deadline fires
\* the machine claims the head of the queue if there is one, and sleeps
\* another 2000 ms if there is none.
MissedSignalRecheck ==
    /\ [](\A c \in Conns : state[c] = "Sleeping" =>
              /\ timer[c] = {SleepMillis}
              /\ IsIdle(c)
              /\ ENABLED Timeout(c)
              /\ queue # <<>> =>
                    ENABLED (/\ Timeout(c)
                             /\ inflight'[c] = <<Head(queue)>>
                             /\ queue' = Tail(queue)))
    /\ [][\A c \in Conns : (state[c] = "Sleeping" /\ Timeout(c)) =>
              IF queue # <<>>
              THEN /\ inflight'[c] = <<Head(queue)>>
                   /\ queue' = Tail(queue)
                   /\ state'[c] = "Requesting"
              ELSE /\ state'[c] = "Sleeping"
                   /\ timer'[c] = {SleepMillis}
                   /\ UNCHANGED <<queue, inflight>>]_vars

\* the only submission failed at its first notifier, so that no wakeup was
\* sent for it, and a machine claimed it when its deadline fired
ClaimedByTimeout ==
    \E c \in Conns : \E p \in Producers :
        /\ pushed = 1
        /\ pc[p] = "panicked" /\ posting[p] = <<1>> /\ signalled[p] = <<>>
        /\ how[c] = "timeout"
        /\ Msgs(inflight[c]) = {1}

\* C6: a submission is pushed before it signals anyone, and it returns only
\* after signalling every registered notifier, in the order of registration:
\* the message of a pending wakeup and of a running post was pushed, the
\* push itself sends no wakeup, every wakeup sent is the one of the next
\* notifier of a running post, and a post leaves its loop at the last
\* notifier.
WakeupAfterPush ==
    /\ [](\A c \in Conns : \A i \in 1..Len(wakeups[c]) :
              wakeups[c][i].op \in PushedMsgs)
    /\ [](\A p \in Producers : pc[p] # "idle" =>
              /\ posting[p] # <<>>
              /\ posting[p][1] \in PushedMsgs
              /\ Len(signalled[p]) < Len(notifiers)
              /\ IsPrefix(signalled[p], notifiers))
    /\ [][pushed' # pushed => wakeups' = wakeups]_vars
    /\ [][\A c \in Conns : Len(wakeups'[c]) > Len(wakeups[c]) =>
              \E p \in Producers :
                  /\ pc[p] = "notifying"
                  /\ notifiers[Len(signalled[p]) + 1] = c
                  /\ wakeups'[c][Len(wakeups'[c])].op = posting[p][1]]_vars
    /\ [][\A p \in Producers : (pc[p] = "notifying" /\ pc'[p] = "idle") =>
              Len(signalled[p]) + 1 = Len(notifiers)]_vars

\* one submission has returned and its wakeup is pending for every machine
SignalledEveryMachine ==
    \E o \in Ops :
        /\ \A p \in Producers : pc[p] = "idle"
        /\ \A c \in Conns : \E i \in 1..Len(wakeups[c]) : wakeups[c][i].op = o

\* C7: a submission one of whose wakeup() calls failed has panicked: its
\* producer never returns from the call, and the caller of req holds no
\* promise.
WakeupFailureFatal ==
    /\ \A o \in failed :
          /\ future[o] \in {"none", "dropped"}
          /\ \E p \in Producers : pc[p] = "panicked" /\ posting[p] = <<o>>
    /\ \A p \in Producers : pc[p] = "panicked" =>
          posting[p] # <<>> /\ posting[p][1] \in failed

\* a req failed at its second notifier, after it had signalled the first
ReqPanicked ==
    \E o \in failed : \E p \in Producers :
        /\ kind[o] = "req"
        /\ future[o] = "dropped"
        /\ posting[p] = <<o>>
        /\ Len(signalled[p]) = 1

\* C8: a message that was in flight on a machine that closed is lost: its
\* Complete is never fulfilled, it is not in the queue, no machine holds it,
\* its request never finishes; and a closed machine holds nothing.
ConnectionFailureLosesOp ==
    /\ \A o \in lost :
          /\ resolved[o] = <<>>
          /\ o \notin Msgs(queue)
          /\ o \notin InFlightMsgs
          /\ o \notin finished
          /\ o \in Range(claims)
    /\ lost # {} => \E c \in Conns : state[c] = "Closed"
    /\ \A c \in Conns : state[c] = "Closed" =>
          inflight[c] = <<>> /\ timer[c] = {}

\* a req is lost, its caller still holds the promise, and the other machine
\* sleeps on an empty queue
LostWhileHeld ==
    \E o \in lost : \E c \in Conns :
        /\ kind[o] = "req"
        /\ future[o] = "held"
        /\ state[c] = "Sleeping"
        /\ queue = <<>>

\* C9, as amended: a machine that is idle when it handles a wakeup claims
\* the head of the queue in that call, whatever its deadline; the submission
\* that sent the wakeup is claimed in that call if it is at the head of the
\* queue.
IdleDispatch ==
    [][\A c \in Conns : (Wakeup(c) /\ IsIdle(c)) =>
          IF queue # <<>>
          THEN /\ inflight'[c] = <<Head(queue)>>
               /\ queue' = Tail(queue)
               /\ (Head(queue).msg = Head(wakeups[c]).op =>
                      Head(wakeups[c]).op \in Msgs(inflight'[c]))
          ELSE /\ state'[c] = "Sleeping"
               /\ UNCHANGED <<queue, inflight>>]_vars

\* a machine claimed the only submission by handling a wakeup
ClaimedByWakeup ==
    \E c \in Conns :
        /\ how[c] = "wakeup"
        /\ pushed = 1
        /\ Msgs(inflight[c]) = {1}

\* C9, as stated: when a machine that was idle when a submission signalled it
\* handles that wakeup, the submission is claimed
IdleDispatchAsStated ==
    [][\A c \in Conns : (Wakeup(c) /\ Head(wakeups[c]).idle) =>
          Head(wakeups[c]).op \notin Msgs(queue')]_vars

\* C10: a message leaves a machine only when its request finishes or the
\* machine closes; no step of the producer or of the caller (a submission,
\* a signal, a registration, a dropped promise) changes what is in flight
\* or removes anything from the queue; and every message in flight is
\* eventually finished or lost.
NoCancellation ==
    /\ [][\A o \in Ops : (o \in InFlightMsgs /\ o \notin InFlightMsgs') =>
              \/ o \in finished' /\ o \notin finished
              \/ o \in lost' /\ o \notin lost]_vars
    /\ [][<<notifiers, pushed, pc, posting, signalled, kind, future, failed>>'
              # <<notifiers, pushed, pc, posting, signalled, kind, future, failed>>
            => inflight' = inflight /\ IsPrefix(queue, queue')]_vars
    /\ \A o \in Ops : (o \in InFlightMsgs) ~> (o \in finished \/ o \in lost)

\* the caller dropped the promise of a req that returned, and its request
\* finished all the same
DroppedYetFinished ==
    \E o \in Ops :
        /\ future[o] = "dropped"
        /\ o \notin failed
        /\ o \in finished
        /\ resolved[o] = <<Data(o)>>

\* the number of times machine c is registered in a list of notifiers
Registrations(ns, c) == Cardinality({i \in 1..Len(ns) : ns[i] = c})

\* some machine is registered more than once
Duplicated == \E c \in Conns : Registrations(notifiers, c) > 1

\* C11: add_listener appends whatever it is given, so a machine registered
\* twice is signalled twice by every submission that returns (once per
\* registration, each signal a wakeup of its own); and with a machine
\* registered twice every push is still claimed at most once, in push order,
\* and every claimed message is in flight, finished, or lost with its
\* connection, and nowhere twice.
DuplicateRegistrationHarmless ==
    /\ [](Duplicated =>
              /\ \A i \in 1..Len(claims) : claims[i] = i
              /\ Msgs(queue) = (1..pushed) \ Range(claims)
              /\ Range(claims) = InFlightMsgs \cup finished \cup lost
              /\ InFlightMsgs \cap (finished \cup lost) = {}
              /\ finished \cap lost = {}
              /\ \A c, d \in Conns :
                    c # d => Msgs(inflight[c]) \cap Msgs(inflight[d]) = {})
    /\ [][\A p \in Producers : \A c \in Conns :
              (pc[p] = "notifying" /\ pc'[p] = "idle") =>
                  Registrations(Append(signalled[p], notifiers[Len(notifiers)]), c)
                      = Registrations(notifiers, c)]_vars
    /\ [][\A p \in Producers : \A c \in Conns :
              ( /\ pc[p] = "notifying"
                /\ failed' = failed
                /\ notifiers[Len(signalled[p]) + 1] = c
                /\ signalled'[p] # signalled[p]
                /\ state[c] # "Closed" ) =>
                  /\ Len(wakeups'[c]) = Len(wakeups[c]) + 1
                  /\ wakeups'[c][Len(wakeups'[c])].op = posting[p][1]]_vars

\* the only machine is registered twice, the one submission has signalled it
\* twice, the first wakeup claimed the message and the second was handled
\* while its request was in flight
RedundantWakeupHandled ==
    \E c \in Conns :
        /\ notifiers = <<c, c>>
        /\ pushed = 1 /\ failed = {}
        /\ \A p \in Producers : pc[p] = "idle"
        /\ how[c] = "wakeup"
        /\ Msgs(inflight[c]) = {1}
        /\ wakeups[c] = <<>>
        /\ timer[c] = {SleepMillis}

\* the steps of machine c in which connection_idle runs: the engine's call
\* when the connection is established or its request has finished, and the
\* calls of wakeup and timeout that find the connection idle
IdleLogic(c) ==
    \/ ConnectionEstablished(c)
    \/ RequestDone(c)
    \/ IsIdle(c) /\ Wakeup(c)
    \/ IsIdle(c) /\ Timeout(c)

\* C12: every run of connection_idle either finds the queue non-empty, removes
\* its head and hands the engine that element whole (message and Complete),
\* leaving the machine Requesting, or finds it empty, leaves it empty and
\* leaves the machine Sleeping with a deadline 2000 ms ahead; the engine's
\* calls that run it are enabled whatever the queue holds.
IdleLogicTotal ==
    /\ [][\A c \in Conns : IdleLogic(c) =>
              /\ (state'[c] = "Requesting") = (queue # <<>>)
              /\ (state'[c] = "Sleeping") = (queue = <<>>)
              /\ IF queue # <<>>
                 THEN /\ queue' = Tail(queue)
                      /\ inflight'[c] = <<Head(queue)>>
                      /\ claims' = Append(claims, Head(queue).msg)
                 ELSE /\ queue' = <<>>
                      /\ inflight'[c] = <<>>
                      /\ timer'[c] = {SleepMillis}
                      /\ claims' = claims]_vars
    /\ [](\A c \in Conns :
              /\ state[c] = "Connecting" => ENABLED ConnectionEstablished(c)
              /\ state[c] = "Requesting" => ENABLED RequestDone(c)
              /\ (state[c] = "Requesting") = (inflight[c] # <<>>)
              /\ state[c] = "Sleeping" => timer[c] = {SleepMillis})

\* one machine took the first submission, a req, with its Complete when its
\* connection was established, and the other found the queue empty and sleeps
BothBranchesTaken ==
    \E c, d \in Conns :
        /\ c # d
        /\ how[c] = "idle"
        /\ inflight[c] = <<[msg |-> 1, returns |-> <<1>>]>>
        /\ state[d] = "Sleeping" /\ timer[d] = {SleepMillis}
        /\ queue = <<>>

\* what a run of try_pop by machine c does to the queue and to the machine
Repopped(c) ==
    IF queue # <<>>
    THEN /\ queue' = Tail(queue)
         /\ inflight'[c] = <<Head(queue)>>
         /\ state'[c] = "Requesting"
         /\ timer'[c] = {}
    ELSE /\ queue' = queue
         /\ inflight'[c] = <<>>
         /\ state'[c] = "Sleeping"
         /\ timer'[c] = {SleepMillis}

\* C13: a sleeping machine can take its timeout with no wakeup pending and
\* can take a pending wakeup before its deadline fires; either call, when it
\* comes, runs try_pop at once, with the same effect on the queue and on the
\* machine.
TwoTriggers ==
    /\ [](\A c \in Conns : state[c] = "Sleeping" =>
              /\ wakeups[c] = <<>> => ENABLED Timeout(c)
              /\ wakeups[c] # <<>> => ENABLED Wakeup(c) /\ ENABLED Timeout(c))
    /\ [][\A c \in Conns : (state[c] = "Sleeping" /\ Timeout(c)) =>
              Repopped(c) /\ wakeups'[c] = wakeups[c]]_vars
    /\ [][\A c \in Conns : (state[c] = "Sleeping" /\ Wakeup(c)) =>
              Repopped(c) /\ wakeups'[c] = Tail(wakeups[c])]_vars

\* one sleeping machine claimed at its deadline while its wakeup was still
\* pending, and the other sleeping machine claimed by its wakeup
BothTriggersClaimed ==
    \E c, d \in Conns :
        /\ c # d
        /\ how[c] = "timeout" /\ wakeups[c] # <<>>
        /\ how[d] = "wakeup"

\* the messages claimed whose request has neither finished nor been lost
Unfinished == Range(claims) \ (finished \cup lost)

\* C14: a wakeup or a timeout of a machine with a request in flight leaves
\* the queue, the request and the history of claims as they are and sets the
\* deadline 2000 ms ahead; so every unfinished claim is the one request in
\* flight of a machine of its own.
BusyDoesNotPop ==
    /\ [][\A c \in Conns : (~IsIdle(c) /\ (Wakeup(c) \/ Timeout(c))) =>
              /\ UNCHANGED <<queue, inflight, claims, state>>
              /\ timer'[c] = {SleepMillis}]_vars
    /\ [](\A c \in Conns : Len(inflight[c]) <= 1)
    /\ [](Unfinished = InFlightMsgs)
    /\ [](Cardinality(Unfinished)
              = Cardinality({c \in Conns : state[c] = "Requesting"}))

\* a machine handled a wakeup while its request was in flight: its deadline
\* is set, no wakeup is pending for it, and the later submission is still
\* in the queue
BusyMachineWoken ==
    \E c \in Conns :
        /\ state[c] = "Requesting"
        /\ timer[c] = {SleepMillis}
        /\ wakeups[c] = <<>>
        /\ Msgs(inflight[c]) = {1}
        /\ Msgs(queue) = {2}

\* C15: the step that finishes the request of a machine runs try_pop in the
\* same step: with a non-empty queue the machine is Requesting again with the
\* head of the queue, having neither slept nor consumed a wakeup, and such a
\* step is enabled whenever a Requesting machine faces a non-empty queue;
\* with an empty queue the machine sleeps.
RequestingRepeats ==
    /\ [][\A c \in Conns : RequestDone(c) =>
              /\ inflight[c][1].msg \in finished'
              /\ wakeups' = wakeups
              /\ IF queue # <<>>
                 THEN /\ state'[c] = "Requesting"
                      /\ inflight'[c] = <<Head(queue)>>
                      /\ queue' = Tail(queue)
                      /\ timer'[c] = {}
                 ELSE /\ state'[c] = "Sleeping"
                      /\ inflight'[c] = <<>>
                      /\ queue' = queue]_vars
    /\ [](\A c \in Conns : (state[c] = "Requesting" /\ queue # <<>>) =>
              ENABLED (/\ RequestDone(c)
                       /\ state'[c] = "Requesting"
                       /\ inflight'[c] = <<Head(queue)>>))

\* the second submission failed at its first notifier, so that no wakeup was
\* ever sent for it, and the machine that finished the first claimed it at
\* the end of that request, with no deadline set
ClaimedAtCompletion ==
    \E c \in Conns : \E p \in Producers :
        /\ finished = {1}
        /\ 2 \in failed /\ signalled[p] = <<>>
        /\ how[c] = "done"
        /\ Msgs(inflight[c]) = {2}
        /\ timer[c] = {}

\* C16: if some machine is connected and from some time on never closes,
\* every message in the queue is eventually claimed, by the deadlines and
\* the ends of requests alone.
EventualDispatch ==
    (\E c \in Conns : <>[](state[c] \in {"Connecting", "Requesting", "Sleeping"}))
        => \A o \in Ops : (o \in Msgs(queue)) ~> (o \in Range(claims))

\* the second submission signalled the first machine, which handled the
\* wakeup while its request was in flight, and failed at the second, which
\* was never signalled and claimed the message when its deadline fired
ClaimedWithoutWakeup ==
    \E c, d \in Conns : \E p \in Producers :
        /\ c # d
        /\ pc[p] = "panicked" /\ posting[p] = <<2>> /\ signalled[p] = <<c>>
        /\ Msgs(inflight[c]) = {1}
        /\ wakeups[c] = <<>> /\ timer[c] = {SleepMillis}
        /\ how[d] = "timeout"
        /\ Msgs(inflight[d]) = {2}

\* C17: a machine becomes Closed only in a connection_error step, which is
\* enabled while it is connecting, Requesting or Sleeping, closes it and
\* leaves the queue as it is; a Closed machine stays Closed, with no deadline
\* and no request, and every pop is made by a machine that is not Closed.
ClosedTerminal ==
    /\ [][\A c \in Conns : (state[c] # "Closed" /\ state'[c] = "Closed") =>
              ConnectionError(c)]_vars
    /\ [][\A c \in Conns : ConnectionError(c) =>
              state'[c] = "Closed" /\ queue' = queue /\ claims' = claims]_vars
    /\ [][\A c \in Conns : state[c] = "Closed" =>
              /\ state'[c] = "Closed"
              /\ timer'[c] = {} /\ inflight'[c] = <<>>
              /\ ~ConnectionEstablished(c) /\ ~RequestDone(c)
              /\ ~Wakeup(c) /\ ~Timeout(c)]_vars
    /\ [][claims' # claims =>
              \E c \in Conns :
                  /\ state[c] # "Closed"
                  /\ inflight'[c] = <<Head(queue)>>
                  /\ inflight'[c] # inflight[c]]_vars
    /\ [](\A c \in Conns :
              /\ state[c] \in {"Connecting", "Requesting", "Sleeping"} =>
                    ENABLED ConnectionError(c)
              /\ state[c] = "Closed" =>
                    timer[c] = {} /\ inflight[c] = <<>> /\ wakeups[c] = <<>>)

\* every machine has closed, one of them with the first message in flight,
\* and the second message is still in the queue
AllClosed ==
    /\ \A c \in Conns : state[c] = "Closed"
    /\ lost = {1}
    /\ Msgs(queue) = {2}

\* every machine but c is unconnected or closed
Alone(c) == \A d \in Conns \ {c} : state[d] \in {"Unconnected", "Closed"}

CompletionOrderFree ==
    /\ \A i, j \in 1..Len(claims) : i < j => claims[i] < claims[j]
    /\ \A c, d \in Conns :
          (c # d /\ inflight[c] # <<>> /\ inflight[d] # <<>>) =>
              ENABLED (/\ RequestDone(d)
                       /\ finished' = finished \cup Msgs(inflight[d])
                       /\ Msgs(inflight[c]) \subseteq Msgs(inflight'[c])
                       /\ Msgs(inflight[c]) \cap finished' = {})

\* message 1 was pushed and claimed before message 2, and the request of 2
\* has finished while that of 1 is still in flight
LaterFinishedFirst ==
    /\ claims = <<1, 2>>
    /\ finished = {2}
    /\ 1 \in InFlightMsgs
    /\ lost = {}

\* the wakeups pending for machine c that submission o sent
Pending(c, o) == Cardinality({i \in 1..Len(wakeups[c]) : wakeups[c][i].op = o})

\* C20: when the wakeup() of the k-th notifier fails, the step changes
\* neither the queue nor any wakeup: the message was pushed before the loop
\* and is in the queue or claimed, the notifiers before the k-th are the ones
\* signalled, in registration order, and from then on the call signals no
\* one: a machine has at most as many wakeups of the submission as it has
\* registrations before the k-th.  The message, while at the head of the
\* queue, can be claimed by a sleeping machine at its deadline.
FailedSubmissionPartial ==
    /\ [][\A p \in Producers : (pc[p] = "notifying" /\ pc'[p] = "panicked") =>
              /\ UNCHANGED <<queue, wakeups, signalled, posting, claims>>
              /\ posting[p][1] \in failed'
              /\ posting[p][1] \in PushedMsgs]_vars
    /\ [][\A p \in Producers : pc[p] = "panicked" =>
              /\ pc'[p] = "panicked"
              /\ signalled'[p] = signalled[p] /\ posting'[p] = posting[p]
              /\ \A c \in Conns :
                    Pending(c, posting[p][1])' <= Pending(c, posting[p][1])]_vars
    /\ [](\A p \in Producers : pc[p] = "panicked" =>
              LET o == posting[p][1] IN
              /\ o \in PushedMsgs
              /\ Len(signalled[p]) < Len(notifiers)
              /\ IsPrefix(signalled[p], notifiers)
              /\ \A c \in Conns : Pending(c, o) <= Registrations(signalled[p], c)
              /\ \A c \in Conns :
                    (queue # <<>> /\ Head(queue).msg = o /\ state[c] = "Sleeping")
                        => ENABLED (Timeout(c) /\ o \in Msgs(inflight'[c])))

\* with machines 1 and 2 registered in that order, a submission failed at the
\* second notifier: its message is in the queue, its wakeup is pending for
\* machine 1, and machine 2, asleep, has none
FailedAtSecond ==
    \E p \in Producers : \E o \in Ops :
        /\ pc[p] = "panicked" /\ posting[p] = <<o>>
        /\ notifiers = <<1, 2>> /\ signalled[p] = <<1>>
        /\ o \in Msgs(queue)
        /\ Pending(1, o) = 1
        /\ state[2] = "Sleeping" /\ wakeups[2] = <<>>

\* the number of places that hold message o: positions of the queue,
\* machines with it in flight, the finished and the lost
Places(o) ==
    Cardinality({i \in 1..Len(queue) : queue[i].msg = o})
    + Cardinality({c \in Conns : o \in Msgs(inflight[c])})
    + (IF o \in finished THEN 1 ELSE 0)
    + (IF o \in lost THEN 1 ELSE 0)

\* C21: every submission made so far is in exactly one place (one position
\* of the queue, in flight on one machine, finished, or lost with a machine
\* that closed), a submission not yet made is nowhere, and the claims made
\* and the messages queued add up to the pushes.
Conservation ==
    /\ \A o \in Ops : Places(o) = (IF o <= pushed THEN 1 ELSE 0)
    /\ \A o \in Ops : (kind[o] # "none") = (o <= pushed)
    /\ Len(claims) + Len(queue) = pushed
    /\ Msgs(queue) \subseteq 1..pushed
    /\ Cardinality(InFlightMsgs) + Cardinality(finished) + Cardinality(lost)
          = Len(claims)
    /\ lost # {} => \E c \in Conns : state[c] = "Closed"

\* of two submissions one has finished and the other was lost with the
\* machine that held it
OneFinishedOneLost ==
    /\ pushed = 2
    /\ finished = {1}
    /\ lost = {2}
    /\ queue = <<>>

\* C22: the list of notifiers only grows, by one notifier at its end in a
\* step that changes neither the queue nor any wakeup; a submission and the
\* turns of its loop leave the list as it is, and so does a connection
\* error: every machine that was connected stays registered, closed or not,
\* and every submission starts its loop at the first notifier and takes the
\* notifiers one by one, those of closed machines included.
NotifiersAppendOnly ==
    /\ [][notifiers' # notifiers =>
              /\ \E c \in Conns : notifiers' = Append(notifiers, c)
              /\ UNCHANGED <<queue, wakeups, pushed, claims>>]_vars
    /\ [][\A p \in Producers : (Req(p) \/ Send(p) \/ PostNotify(p)) =>
              notifiers' = notifiers]_vars
    /\ [][\A c \in Conns : ConnectionError(c) => notifiers' = notifiers]_vars
    /\ [][\A p \in Producers : (Req(p) \/ Send(p)) =>
              /\ audience'[pushed'] = Range(notifiers)
              /\ notifiers # <<>> =>
                    pc'[p] = "notifying" /\ signalled'[p] = <<>>]_vars
    /\ [][\A p \in Producers :
              (pc[p] = "notifying" /\ signalled'[p] # signalled[p]) =>
                  \/ signalled'[p] = Append(signalled[p],
                                            notifiers[Len(signalled[p]) + 1])
                  \/ /\ Len(signalled[p]) + 1 = Len(notifiers)
                     /\ pc'[p] = "idle"]_vars
    /\ [](\A c \in Conns : state[c] # "Unconnected" => c \in Range(notifiers))
    /\ [](\A o \in Ops : audience[o] \subseteq Range(notifiers))

\* machine 1 closed with the first message in flight and is still first in
\* the list, and the loop of the second submission has taken its notifier
ClosedStillSignalled ==
    \E p \in Producers :
        /\ state[1] = "Closed" /\ lost = {1}
        /\ notifiers = <<1, 2>>
        /\ pc[p] = "notifying" /\ posting[p] = <<2>>
        /\ signalled[p] = <<1>>
        /\ wakeups[1] = <<>>

====
